---- MODULE Spec2Model ----
(***************************************************************************)
(* Model of autogguf-rs (src/src/main.rs): the main pipeline task, the     *)
(* upload worker task, the ctrl-c listener task and the child processes    *)
(* they spawn.                                                             *)
(***************************************************************************)
EXTENDS Naturals, Integers, Sequences, FiniteSets, TLC

\* ------------------------------------------------------------------ bounds
MaxQuants == 2

\* number of quant jobs of the runs that fill the trigger queue
CoalesceJobs == 3

\* --------------------------------------------------------- program constants
ChannelCapacity == 10

\* ------------------------------------------------------------- quant levels
QuantLevels ==
    {"q2_k", "q3_k_s", "q3_k_m", "q3_k_l", "q4_0", "q4_1", "q4_k_s", "q4_k_m",
     "q5_0", "q5_1", "q5_k_s", "q5_k_m", "q6_k", "q8_0", "bf16",
     "iq1_s", "iq1_m", "iq2_xxs", "iq2_xs", "iq2_s", "iq2_m", "q2_k_s",
     "iq3_xxs", "iq3_xs", "iq3_s", "iq3_m", "iq4_xs", "iq4_nl"}

requires_imatrix(q) ==
    q \in {"iq1_s", "iq1_m", "iq2_xxs", "iq2_xs", "iq2_s", "iq2_m", "q2_k_s",
           "iq3_xxs", "iq3_xs", "iq3_s", "iq3_m", "iq4_xs", "iq4_nl"}

\* the quant levels the command lines of the model are built from
QuantSample == {"q4_0", "iq3_s"}

QuantLists == UNION {[1..n -> QuantSample] : n \in 1..MaxQuants}

\* the fields of the parsed command line (struct Args) that main reads at more
\* than one place: fp.is_some(), imatrix.is_some(), skip_upload, only_upload
\* and quants. update_llama, llama_path.exists() and skip_download are read
\* once and are inputs of the actions that read them.
Args ==
    [override_fp : BOOLEAN, override_imat : BOOLEAN, skip_upload : BOOLEAN,
     only_upload : BOOLEAN, quants : QuantLists]

VARIABLES
    args,       \* the command line fields of Args, fixed for the run
    mstep,      \* main task: the step it is at
    mphase,     \* main task: "start", "spawned" (child spawned), "waiting" (in select!/wait),
                \* "killing" (suspended in child.kill().await)
    qi,         \* main task: index of the current quant job
    mchild,     \* main task's child process: "none", "running", "exited"
    mstatus,    \* exit status of the main task's child: "-", "ok", "nonzero"
    mnotified,  \* the Notified future of the main task's select! has been woken
    merr,       \* the error main returned with, "none" if none
    wpc,        \* upload worker task: its position
    wchild,     \* upload worker's child process: "none", "running", "exited"
    wstatus,    \* exit status of the upload child
    wnotified,  \* the Notified future of the worker's select! has been woken
    werr,       \* the error the worker returned with, "none" if none
    queue,      \* number of unit triggers in the mpsc channel
    closed,     \* upload_tx has been dropped
    busy,       \* the AtomicBool shared by main and the worker
    sig,        \* ctrl-c listener task: "uninstalled" (spawned, not yet polled), "listening",
                \* "fired"; "killed" when SIGINT took its default effect on the process
    uploads,    \* number of upload child processes running
    pending,    \* per quant level: a file exists at "<quant_path>.pending"
    final,      \* per quant level: a file exists at "<quant_path>"
    fpExists,   \* the full-precision output file exists
    lateRun,    \* history: a publication run started after the quantization loop ended
    drainWaited,\* history: the shutdown loop found the busy flag set at least once
    cancelBoth, \* history: ctrl-c arrived while a quantizer and an upload were both running
    jobsDone,   \* history: number of quantize() calls that returned Ok (rename step completed)
    runsStarted,\* history: number of calls of upload_ggufs_to_hf
    firstRunBacklog \* history: three or more triggers were pending in the queue when the
                \* first publication run completed

vars == <<args, mstep, mphase, qi, mchild, mstatus, mnotified, merr,
          wpc, wchild, wstatus, wnotified, werr, queue, closed, busy, sig,
          uploads, pending, final, fpExists, lateRun, drainWaited, cancelBoth,
          jobsDone, runsStarted, firstRunBacklog>>

mainVars == <<mstep, mphase, qi, mchild, mstatus, mnotified, merr>>
workerVars == <<wpc, wchild, wstatus, wnotified, werr>>
chanVars == <<queue, closed>>
fileVars == <<pending, final, fpExists>>
histVars == <<lateRun, drainWaited, cancelBoth>>
countVars == <<jobsDone, runsStarted, firstRunBacklog>>

\* ---------------------------------------------------------------- helpers
\* steps of main that spawn a child process
ChildSteps == {"clone", "pull", "clean", "make", "deps", "mkdir", "download",
               "convert", "imatrix", "quantize", "mv"}

\* steps whose child is raced against cancel_rx.notified() in a select!
Raced(s) == s \in ChildSteps \ {"mkdir"}

Terminated == mstep \in {"success", "failure"}

\* the worker task has finished: returned Ok, returned Err, or panicked
WorkerFinished == wpc \in {"done_ok", "done_err", "panicked"}

\* steps that print a progress line (`if verbose { println!(..) }`) before
\* they spawn their child; println! panics when stdout cannot be written
PrintlnSteps == {"clone", "pull", "deps", "download", "convert", "imatrix",
                 "quantize"}

\* SIGINT arrived before the handler was installed: the process was terminated
ProcessKilled == sig = "killed"

\* the process is gone: main has returned or the signal has terminated it
Exited == Terminated \/ ProcessKilled

\* after the quantization loop: the shutdown protocol
LoopEnded == mstep \in {"drain_poll", "drain_sleep", "final_send", "close", "join", "done",
                        "success"}

\* a Notified future created now: notify_waiters() stores no permit
NotifiedAtCreation == FALSE

AfterImatrix == IF ~args.skip_upload THEN "spawn_worker" ELSE "loop"

\* the imatrix stage decided on all quant levels instead of any
AfterConvertAll ==
    IF ~args.only_upload /\ ~args.override_imat
       /\ \A i \in 1..Len(args.quants) : requires_imatrix(args.quants[i])
    THEN "calib" ELSE AfterImatrix

AfterConvert ==
    IF ~args.only_upload /\ ~args.override_imat
       /\ \E i \in 1..Len(args.quants) : requires_imatrix(args.quants[i])
    THEN "calib" ELSE AfterImatrix

AfterDownload ==
    IF args.override_fp \/ args.only_upload THEN AfterConvert ELSE "convert"

\* `if args.skip_download || override_fp || args.only_upload`
AfterDownloadCheck(skip_download) ==
    IF skip_download \/ args.override_fp \/ args.only_upload
    THEN AfterDownload ELSE "mkdir"

\* `if args.update_llama`, then `if !llama_path.exists()` in update_llama_cpp
FirstStep(update_llama, llama_exists) ==
    IF update_llama
    THEN (IF ~llama_exists THEN "clone" ELSE "pull")
    ELSE "download_check"

\* a quantize() that returns without its rename step
AfterStepNoRename(s) ==
    CASE s = "clone" -> "pull"
      [] s = "pull" -> "clean"
      [] s = "clean" -> "make"
      [] s = "make" -> "deps"
      [] s = "deps" -> "download_check"
      [] s = "mkdir" -> "download"
      [] s = "download" -> AfterDownload
      [] s = "convert" -> "verify"
      [] s = "imatrix" -> "cleanup"
      [] s = "quantize" -> "trigger_check"
      [] s = "mv" -> "trigger_check"

\* where main continues when the child of step s has exited and `status?` passed
AfterStep(s) ==
    CASE s = "clone" -> "pull"
      [] s = "pull" -> "clean"
      [] s = "clean" -> "make"
      [] s = "make" -> "deps"
      [] s = "deps" -> "download_check"
      [] s = "mkdir" -> "download"
      [] s = "download" -> AfterDownload
      [] s = "convert" -> "verify"
      [] s = "imatrix" -> "cleanup"
      [] s = "quantize" -> "mv"
      [] s = "mv" -> "trigger_check"

CurQuant == args.quants[qi]

\* llama-quantize is an external program: whether there is a file at its
\* output path "<quant_path>.pending", and how much of it, is its own affair,
\* whatever its exit status
QuantizerOutput ==
    /\ \E f \in BOOLEAN : pending' = [pending EXCEPT ![CurQuant] = f]
    /\ final' = final

\* `mv <quant_path>.pending <quant_path>` has renamed the file
Renamed ==
    /\ pending[CurQuant]
    /\ final' = [final EXCEPT ![CurQuant] = TRUE]
    /\ pending' = [pending EXCEPT ![CurQuant] = FALSE]

\* the files a child of main has produced by the moment it is stopped, or by
\* the moment main is gone while the child is still running
ChildFilesSoFar ==
    /\ \/ mstep = "quantize" /\ mchild = "running" /\ QuantizerOutput
       \/ mstep = "mv" /\ mchild = "running" /\ Renamed
       \/ ~(mstep = "quantize" /\ mchild = "running") /\ UNCHANGED <<pending, final>>
    /\ \/ mstep = "convert" /\ mchild = "running" /\ fpExists' \in BOOLEAN
       \/ ~(mstep = "convert" /\ mchild = "running") /\ fpExists' = fpExists

\* main returns Err(e), or panics in a println! (e = "panic"): the process
\* exits with a failure status
Fail(e) ==
    /\ mstep' = "failure"
    /\ mphase' = "start"
    /\ merr' = e

Goto(s) ==
    /\ mstep' = s
    /\ mphase' = "start"
    /\ merr' = merr

\* ------------------------------------------------------------------- Init
InitState ==
    /\ mstep = "init"
    /\ mphase = "start"
    /\ qi = 1
    /\ mchild = "none"
    /\ mstatus = "-"
    /\ mnotified = FALSE
    /\ merr = "none"
    /\ wpc = "unspawned"
    /\ wchild = "none"
    /\ wstatus = "-"
    /\ wnotified = FALSE
    /\ werr = "none"
    /\ queue = 0
    /\ closed = FALSE
    /\ busy = FALSE
    /\ sig = "uninstalled"
    /\ uploads = 0
    /\ pending = [q \in QuantSample |-> FALSE]
    /\ final = [q \in QuantSample |-> FALSE]
    /\ fpExists = FALSE
    /\ lateRun = FALSE
    /\ drainWaited = FALSE
    /\ cancelBoth = FALSE
    /\ jobsDone = 0
    /\ runsStarted = 0
    /\ firstRunBacklog = FALSE

Init ==
    /\ args \in Args
    /\ InitState

\* command lines with publication enabled and CoalesceJobs quant jobs
CoalesceArgs ==
    [override_fp : BOOLEAN, override_imat : BOOLEAN, skip_upload : {FALSE},
     only_upload : {FALSE},
     quants : {[i \in 1..CoalesceJobs |-> q] : q \in QuantSample}]

CoalesceInit ==
    /\ args \in CoalesceArgs
    /\ InitState

\* ------------------------------------------------------------ main: steps
MainStart ==
    /\ ~ProcessKilled
    /\ mstep = "init"
    /\ \/ \E update_llama \in BOOLEAN, llama_exists \in BOOLEAN :
             Goto(FirstStep(update_llama, llama_exists))
       \/ Fail("panic")
    /\ UNCHANGED <<args, qi, mchild, mstatus, mnotified, workerVars, chanVars,
                   busy, sig, uploads, fileVars, histVars, countVars>>

\* the download stage is run or skipped
DownloadCheck ==
    /\ ~ProcessKilled
    /\ mstep = "download_check"
    /\ \/ \E skip_download \in BOOLEAN : Goto(AfterDownloadCheck(skip_download))
       \/ Fail("panic")
    /\ UNCHANGED <<args, qi, mchild, mstatus, mnotified, workerVars, chanVars,
                   busy, sig, uploads, fileVars, histVars, countVars>>

\* a spawn whose error is dropped: the step is skipped
MainSpawnIgnoreFailure ==
    /\ ~ProcessKilled
    /\ mstep \in ChildSteps
    /\ mphase = "start"
    /\ \/ /\ mstep \in PrintlnSteps
          /\ Fail("panic")
          /\ UNCHANGED <<mchild, mstatus>>
       \/ /\ Goto(AfterStep(mstep))
          /\ UNCHANGED <<mchild, mstatus>>
       \/ /\ mstep' = mstep
          /\ merr' = merr
          /\ mphase' = IF Raced(mstep) THEN "spawned" ELSE "waiting"
          /\ mchild' = "running"
          /\ mstatus' = "-"
    /\ UNCHANGED <<args, qi, mnotified, workerVars, chanVars, busy, sig,
                   uploads, fileVars, histVars, countVars>>

\* Command::new(..).spawn()?
MainSpawn ==
    /\ ~ProcessKilled
    /\ mstep \in ChildSteps
    /\ mphase = "start"
    /\ \/ /\ mstep \in PrintlnSteps
          /\ Fail("panic")
          /\ UNCHANGED <<mchild, mstatus>>
       \/ /\ Fail("spawn")
          /\ UNCHANGED <<mchild, mstatus>>
       \/ /\ mstep' = mstep
          /\ merr' = merr
          /\ mphase' = IF Raced(mstep) THEN "spawned" ELSE "waiting"
          /\ mchild' = "running"
          /\ mstatus' = "-"
    /\ UNCHANGED <<args, qi, mnotified, workerVars, chanVars, busy, sig,
                   uploads, fileVars, histVars, countVars>>

\* entering select!: the Notified future is created
MainSelect ==
    /\ ~ProcessKilled
    /\ mstep \in ChildSteps
    /\ mphase = "spawned"
    /\ mphase' = "waiting"
    /\ mnotified' = NotifiedAtCreation
    /\ UNCHANGED <<args, mstep, qi, mchild, mstatus, merr, workerVars, chanVars,
                   busy, sig, uploads, fileVars, histVars, countVars>>

\* the child of the current step exits on its own with exit status st
ChildExit(st) ==
    /\ ~Exited
    /\ mchild = "running"
    /\ mchild' = "exited"
    /\ mstatus' = st
    /\ \/ mstep = "quantize" /\ QuantizerOutput
       \/ mstep = "mv" /\ st = "ok" /\ Renamed
       \/ /\ mstep # "quantize"
          /\ ~(mstep = "mv" /\ st = "ok" /\ pending[CurQuant])
          /\ UNCHANGED <<pending, final>>
    /\ \/ mstep = "convert" /\ fpExists' \in BOOLEAN
       \/ mstep # "convert" /\ fpExists' = fpExists
    /\ UNCHANGED <<args, mstep, mphase, qi, mnotified, merr, workerVars,
                   chanVars, busy, sig, uploads, histVars, countVars>>

\* select! takes the branch `status = child.wait() => { status?; }`:
\* only an error of wait() itself is propagated, the exit status is not looked at
MainExitBranch ==
    /\ ~ProcessKilled
    /\ mstep \in ChildSteps
    /\ mphase = "waiting"
    /\ mchild = "exited"
    /\ \/ /\ Goto(AfterStep(mstep))
          /\ jobsDone' = IF mstep = "mv" THEN jobsDone + 1 ELSE jobsDone
       \/ /\ Fail("wait")
          /\ jobsDone' = jobsDone
       \/ /\ mstep = "download"
          /\ Fail("panic")
          /\ jobsDone' = jobsDone
    /\ mchild' = "none"
    /\ mstatus' = "-"
    /\ mnotified' = FALSE
    /\ UNCHANGED <<args, qi, workerVars, chanVars, busy,
                   sig, uploads, fileVars, histVars, runsStarted,
                   firstRunBacklog>>

\* select! takes the branch `_ = cancel_rx.notified() => { child.kill().await?; .. }`.
\* kill() is start_kill()? then wait().await?: either the child is sent
\* SIGKILL and the task is suspended until it has been reaped, or start_kill
\* fails and `?` returns its error with the child left running. What the
\* child has written by then is up to the child.
MainCancelBranch ==
    /\ ~ProcessKilled
    /\ Raced(mstep)
    /\ mphase = "waiting"
    /\ mnotified
    /\ \/ /\ mstep' = mstep
          /\ merr' = merr
          /\ mphase' = "killing"
          /\ mchild' = IF mchild = "running" THEN "exited" ELSE mchild
          /\ mstatus' = IF mchild = "running" THEN "killed" ELSE mstatus
       \/ /\ Fail("kill")
          /\ UNCHANGED <<mchild, mstatus>>
    /\ ChildFilesSoFar
    /\ UNCHANGED <<args, qi, mnotified, workerVars, chanVars, busy,
                   sig, uploads, histVars, countVars>>

\* the wait() of `child.kill().await?` completes: its error is returned by `?`, otherwise
\* `return Err("... killed due to interrupt")`
MainKillReturn ==
    /\ ~ProcessKilled
    /\ Raced(mstep)
    /\ mphase = "killing"
    /\ \/ Fail("cancelled")
       \/ Fail("kill")
    /\ mchild' = "none"
    /\ UNCHANGED <<args, qi, mstatus, mnotified, workerVars, chanVars, busy, sig,
                   uploads, fileVars, histVars, countVars>>

\* a conversion stage that trusts the converter and does not look for the file
VerifySkipped ==
    /\ ~ProcessKilled
    /\ mstep = "verify"
    /\ Goto(AfterConvert)
    /\ UNCHANGED <<args, qi, mchild, mstatus, mnotified, workerVars, chanVars,
                   busy, sig, uploads, fileVars, histVars, countVars>>

\* `tokio::fs::try_exists(output_path).await?` after the converter has exited:
\* Ok(true), Ok(false) -> Err("Conversion failed"), or its own io error
Verify ==
    /\ ~ProcessKilled
    /\ mstep = "verify"
    /\ \/ IF fpExists THEN Goto(AfterConvert) ELSE Fail("verify")
       \/ Fail("io")
       \/ fpExists /\ Fail("panic")
    /\ UNCHANGED <<args, qi, mchild, mstatus, mnotified, workerVars, chanVars,
                   busy, sig, uploads, fileVars, histVars, countVars>>

\* generate_imatrix before its spawn: fetch the calibration data unless present
Calib ==
    /\ ~ProcessKilled
    /\ mstep = "calib"
    /\ \/ Goto("imatrix")
       \/ Fail("io")
       \/ Fail("panic")
    /\ UNCHANGED <<args, qi, mchild, mstatus, mnotified, workerVars, chanVars,
                   busy, sig, uploads, fileVars, histVars, countVars>>

\* generate_imatrix after its child: remove_file("calibration_data.txt")
Cleanup ==
    /\ ~ProcessKilled
    /\ mstep = "cleanup"
    /\ \/ Goto(AfterImatrix)
       \/ Fail("io")
       \/ Fail("panic")
    /\ UNCHANGED <<args, qi, mchild, mstatus, mnotified, workerVars, chanVars,
                   busy, sig, uploads, fileVars, histVars, countVars>>

\* tokio::task::spawn(upload_worker(..))
SpawnWorker ==
    /\ ~ProcessKilled
    /\ mstep = "spawn_worker"
    /\ Goto("loop")
    /\ wpc' = "recv"
    /\ UNCHANGED <<args, qi, mchild, mstatus, mnotified, wchild, wstatus,
                   wnotified, werr, chanVars, busy, sig, uploads, fileVars,
                   histVars, countVars>>

\* a quantization loop that is not guarded by only_upload
LoopNoOnlyUpload ==
    /\ ~ProcessKilled
    /\ mstep = "loop"
    /\ IF qi <= Len(args.quants)
       THEN Goto("quantize")
       ELSE Goto(IF ~args.skip_upload THEN "drain_poll" ELSE "close")
    /\ UNCHANGED <<args, qi, mchild, mstatus, mnotified, workerVars, chanVars,
                   busy, sig, uploads, fileVars, histVars, countVars>>

\* head of `for q in args.quants`, and the branch into the shutdown protocol
Loop ==
    /\ ~ProcessKilled
    /\ mstep = "loop"
    /\ IF ~args.only_upload /\ qi <= Len(args.quants)
       THEN Goto("quantize")
       ELSE Goto(IF ~args.skip_upload THEN "drain_poll" ELSE "close")
    /\ UNCHANGED <<args, qi, mchild, mstatus, mnotified, workerVars, chanVars,
                   busy, sig, uploads, fileVars, histVars, countVars>>

\* `if !args.skip_upload && !busy.load(Ordering::Acquire)`
TriggerCheck ==
    /\ ~ProcessKilled
    /\ mstep = "trigger_check"
    /\ IF ~args.skip_upload /\ ~busy
       THEN Goto("trigger_send") /\ qi' = qi
       ELSE Goto("loop") /\ qi' = qi + 1
    /\ UNCHANGED <<args, mchild, mstatus, mnotified, workerVars, chanVars,
                   busy, sig, uploads, fileVars, histVars, countVars>>

\* the receiver is dropped when the worker task has returned; a return with
\* Err drops it while the channel is open and discards the queued triggers
ReceiverDropped == WorkerFinished

\* a loop that sends two triggers for one completed job
TriggerSendTwice ==
    /\ ~ProcessKilled
    /\ mstep = "trigger_send"
    /\ \/ /\ ReceiverDropped
          /\ Fail("send")
          /\ UNCHANGED <<qi, queue>>
       \/ /\ ~ReceiverDropped
          /\ queue + 1 < ChannelCapacity
          /\ queue' = queue + 2
          /\ qi' = qi + 1
          /\ Goto("loop")
    /\ UNCHANGED <<args, mchild, mstatus, mnotified, workerVars, closed,
                   busy, sig, uploads, fileVars, histVars, countVars>>

\* `upload_tx.send(()).await?` inside the loop
TriggerSend ==
    /\ ~ProcessKilled
    /\ mstep = "trigger_send"
    /\ \/ /\ ReceiverDropped
          /\ Fail("send")
          /\ UNCHANGED <<qi, queue>>
       \/ /\ ~ReceiverDropped
          /\ queue < ChannelCapacity
          /\ queue' = queue + 1
          /\ qi' = qi + 1
          /\ Goto("loop")
    /\ UNCHANGED <<args, mchild, mstatus, mnotified, workerVars, closed,
                   busy, sig, uploads, fileVars, histVars, countVars>>

\* `while busy.load(Ordering::Acquire)`
DrainPoll ==
    /\ ~ProcessKilled
    /\ mstep = "drain_poll"
    /\ Goto(IF busy THEN "drain_sleep" ELSE "final_send")
    /\ drainWaited' = (drainWaited \/ busy)
    /\ UNCHANGED <<args, qi, mchild, mstatus, mnotified, workerVars, chanVars,
                   busy, sig, uploads, fileVars, lateRun, cancelBoth,
                   countVars>>

\* `sleep(Duration::from_millis(100)).await`
DrainSleep ==
    /\ ~ProcessKilled
    /\ mstep = "drain_sleep"
    /\ Goto("drain_poll")
    /\ UNCHANGED <<args, qi, mchild, mstatus, mnotified, workerVars, chanVars,
                   busy, sig, uploads, fileVars, histVars, countVars>>

\* a shutdown protocol that closes the queue without the final trigger
FinalSendSkipped ==
    /\ ~ProcessKilled
    /\ mstep = "final_send"
    /\ Goto("close")
    /\ UNCHANGED <<args, qi, mchild, mstatus, mnotified, workerVars, chanVars,
                   busy, sig, uploads, fileVars, histVars, countVars>>

\* the final `upload_tx.send(()).await?`
FinalSend ==
    /\ ~ProcessKilled
    /\ mstep = "final_send"
    /\ \/ /\ ReceiverDropped
          /\ Fail("send")
          /\ UNCHANGED queue
       \/ /\ ~ReceiverDropped
          /\ queue < ChannelCapacity
          /\ queue' = queue + 1
          /\ Goto("close")
    /\ UNCHANGED <<args, qi, mchild, mstatus, mnotified, workerVars, closed,
                   busy, sig, uploads, fileVars, histVars, countVars>>

\* `drop(upload_tx)`
Close ==
    /\ ~ProcessKilled
    /\ mstep = "close"
    /\ closed' = TRUE
    /\ Goto(IF ~args.skip_upload THEN "join" ELSE "done")
    /\ UNCHANGED <<args, qi, mchild, mstatus, mnotified, workerVars, queue,
                   busy, sig, uploads, fileVars, histVars, countVars>>

\* `match handle.await? {..}`: a JoinError (the worker panicked) is returned
\* by `?`; Ok and Err of the worker both fall through, Err after an eprintln!
Join ==
    /\ ~ProcessKilled
    /\ mstep = "join"
    /\ WorkerFinished
    /\ \/ wpc = "panicked" /\ Fail("join")
       \/ wpc # "panicked" /\ Goto("done")
       \/ wpc = "done_err" /\ Fail("panic")
    /\ UNCHANGED <<args, qi, mchild, mstatus, mnotified, workerVars, chanVars,
                   busy, sig, uploads, fileVars, histVars, countVars>>

\* `println!("done"); Ok(())`
Done ==
    /\ ~ProcessKilled
    /\ mstep = "done"
    /\ \/ Goto("success")
       \/ Fail("panic")
    /\ UNCHANGED <<args, qi, mchild, mstatus, mnotified, workerVars, chanVars,
                   busy, sig, uploads, fileVars, histVars, countVars>>

\* ---------------------------------------------------------- upload worker
\* `receiver.recv().await` yields Some(())
WorkerRecv ==
    /\ ~Exited
    /\ wpc = "recv"
    /\ queue > 0
    /\ queue' = queue - 1
    /\ wpc' = "swap"
    /\ UNCHANGED <<args, mainVars, wchild, wstatus, wnotified, werr, closed,
                   busy, sig, uploads, fileVars, histVars, countVars>>

\* `receiver.recv().await` yields None: channel closed and empty
WorkerRecvClosed ==
    /\ ~Exited
    /\ wpc = "recv"
    /\ queue = 0
    /\ closed
    /\ wpc' = "done_ok"
    /\ UNCHANGED <<args, mainVars, wchild, wstatus, wnotified, werr, chanVars,
                   busy, sig, uploads, fileVars, histVars, countVars>>

\* `if !busy.swap(true, Ordering::Acquire)`
WorkerSwap ==
    /\ ~Exited
    /\ wpc = "swap"
    /\ busy' = TRUE
    /\ wpc' = IF ~busy THEN "spawn" ELSE "recv"
    /\ UNCHANGED <<args, mainVars, wchild, wstatus, wnotified, werr, chanVars,
                   sig, uploads, fileVars, histVars, countVars>>

\* a worker that does not wait for the upload it spawned
WorkerSpawnDetached ==
    /\ ~Exited
    /\ wpc = "spawn"
    /\ uploads' = uploads + 1
    /\ busy' = FALSE
    /\ wpc' = "recv"
    /\ lateRun' = (lateRun \/ LoopEnded)
    /\ runsStarted' = runsStarted + 1
    /\ UNCHANGED <<args, mainVars, wchild, wstatus, wnotified, werr, chanVars,
                   sig, fileVars, drainWaited, cancelBoth, jobsDone,
                   firstRunBacklog>>

\* upload_ggufs_to_hf up to `Command::new("huggingface-cli")...spawn()?`
WorkerSpawn ==
    /\ ~Exited
    /\ wpc = "spawn"
    /\ lateRun' = (lateRun \/ LoopEnded)
    /\ runsStarted' = runsStarted + 1
    /\ \/ /\ wpc' = "done_err"
          /\ werr' = "spawn"
          /\ queue' = 0
          /\ UNCHANGED <<wchild, wstatus, uploads>>
       \/ /\ wpc' = "panicked"
          /\ werr' = "panic"
          /\ queue' = 0
          /\ UNCHANGED <<wchild, wstatus, uploads>>
       \/ /\ wpc' = "spawned"
          /\ wchild' = "running"
          /\ wstatus' = "-"
          /\ uploads' = uploads + 1
          /\ werr' = werr
          /\ queue' = queue
    /\ UNCHANGED <<args, mainVars, wnotified, closed, busy, sig, fileVars,
                   drainWaited, cancelBoth, jobsDone, firstRunBacklog>>

\* entering select! in upload_ggufs_to_hf
WorkerSelect ==
    /\ ~Exited
    /\ wpc = "spawned"
    /\ wpc' = "waiting"
    /\ wnotified' = NotifiedAtCreation
    /\ UNCHANGED <<args, mainVars, wchild, wstatus, werr, chanVars, busy, sig,
                   uploads, fileVars, histVars, countVars>>

\* the upload child exits on its own with exit status st
UploadExit(st) ==
    /\ ~Exited
    /\ wchild = "running"
    /\ wchild' = "exited"
    /\ wstatus' = st
    /\ uploads' = uploads - 1
    /\ UNCHANGED <<args, mainVars, wpc, wnotified, werr, chanVars, busy, sig,
                   fileVars, histVars, countVars>>

\* `status = upload.wait() => { status?; }` then `busy.store(false, ..)`
WorkerExitBranch ==
    /\ ~Exited
    /\ wpc = "waiting"
    /\ wchild = "exited"
    /\ \/ /\ wpc' = "recv"
          /\ busy' = FALSE
          /\ werr' = werr
          /\ firstRunBacklog' = (firstRunBacklog \/ (runsStarted = 1 /\ queue >= 3))
          /\ queue' = queue
       \/ /\ wpc' = "done_err"
          /\ werr' = "wait"
          /\ busy' = busy
          /\ firstRunBacklog' = firstRunBacklog
          /\ queue' = 0
       \/ /\ wpc' = "panicked"
          /\ werr' = "panic"
          /\ busy' = busy
          /\ firstRunBacklog' = firstRunBacklog
          /\ queue' = 0
    /\ wchild' = "none"
    /\ wstatus' = "-"
    /\ wnotified' = FALSE
    /\ UNCHANGED <<args, mainVars, closed, sig, uploads,
                   fileVars, histVars, jobsDone, runsStarted>>

\* `_ = cancel_rx.notified() => { upload.kill().await?; .. }`: either the
\* upload is sent SIGKILL and the worker is suspended until it has been
\* reaped, or start_kill fails and the worker returns its error through
\* `.await?` with the upload left running
WorkerCancelBranch ==
    /\ ~Exited
    /\ wpc = "waiting"
    /\ wnotified
    /\ \/ /\ wpc' = "killing"
          /\ wchild' = IF wchild = "running" THEN "exited" ELSE wchild
          /\ wstatus' = IF wchild = "running" THEN "killed" ELSE wstatus
          /\ uploads' = IF wchild = "running" THEN uploads - 1 ELSE uploads
          /\ UNCHANGED <<werr, queue>>
       \/ /\ wpc' = "done_err"
          /\ werr' = "kill"
          /\ queue' = 0
          /\ UNCHANGED <<wchild, wstatus, uploads>>
    /\ UNCHANGED <<args, mainVars, wnotified, closed, busy, sig,
                   fileVars, histVars, countVars>>

\* the wait() of `upload.kill().await?` completes and upload_worker returns the error
\* through `.await?`: the receiver is dropped with the triggers in it
WorkerKillReturn ==
    /\ ~Exited
    /\ wpc = "killing"
    /\ wpc' = "done_err"
    /\ werr' \in {"cancelled", "kill"}
    /\ wchild' = "none"
    /\ queue' = 0
    /\ UNCHANGED <<args, mainVars, wstatus, wnotified, closed, busy, sig,
                   uploads, fileVars, histVars, countVars>>

\* ------------------------------------------------------- ctrl-c listener
\* the spawned listener task is polled for the first time: signal::ctrl_c()
\* installs the SIGINT handler
ListenerStart ==
    /\ ~Exited
    /\ sig = "uninstalled"
    /\ sig' = "listening"
    /\ UNCHANGED <<args, mainVars, workerVars, chanVars, busy, uploads,
                   fileVars, histVars, countVars>>

\* SIGINT before the handler is installed: the default disposition terminates
\* the process, its children are left running
SigintDefault ==
    /\ ~Exited
    /\ sig = "uninstalled"
    /\ sig' = "killed"
    /\ ChildFilesSoFar
    /\ UNCHANGED <<args, mainVars, workerVars, chanVars, busy, uploads,
                   histVars, countVars>>

MainInSelect == Raced(mstep) /\ mphase = "waiting"
WorkerInSelect == wpc = "waiting"

\* notify_waiters() wakes the Notified futures that exist now, and only those
\* notify_waiters() that misses the worker's future
CtrlCMainOnly ==
    /\ ~Exited
    /\ sig = "listening"
    /\ sig' = "fired"
    /\ mnotified' = (mnotified \/ MainInSelect)
    /\ wnotified' = wnotified
    /\ cancelBoth' = (mstep = "quantize" /\ mchild = "running" /\ wchild = "running")
    /\ UNCHANGED <<args, mstep, mphase, qi, mchild, mstatus, merr, wpc, wchild,
                   wstatus, werr, chanVars, busy, uploads, fileVars, lateRun,
                   drainWaited, countVars>>

\* signal::ctrl_c().await returns; notifier.notify_waiters()
CtrlC ==
    /\ ~Exited
    /\ sig = "listening"
    /\ sig' = "fired"
    /\ mnotified' = (mnotified \/ MainInSelect)
    /\ wnotified' = (wnotified \/ WorkerInSelect)
    /\ cancelBoth' = (mstep = "quantize" /\ mchild = "running" /\ wchild = "running")
    /\ UNCHANGED <<args, mstep, mphase, qi, mchild, mstatus, merr, wpc, wchild,
                   wstatus, werr, chanVars, busy, uploads, fileVars, lateRun,
                   drainWaited, countVars>>

\* ------------------------------------------------------------------- Next
ExitStatuses == {"ok", "nonzero"}

MainNext ==
    \/ MainStart \/ DownloadCheck \/ MainSpawn \/ MainSelect \/ MainExitBranch \/ MainCancelBranch
    \/ MainKillReturn \/ Done
    \/ Verify \/ Calib \/ Cleanup \/ SpawnWorker \/ Loop \/ TriggerCheck
    \/ TriggerSend \/ DrainPoll \/ DrainSleep \/ FinalSend \/ Close \/ Join

WorkerNext ==
    \/ WorkerRecv \/ WorkerRecvClosed \/ WorkerSwap \/ WorkerSpawn
    \/ WorkerSelect \/ WorkerExitBranch \/ WorkerCancelBranch \/ WorkerKillReturn

ChildNext == \E st \in ExitStatuses : ChildExit(st)

UploadNext == \E st \in ExitStatuses : UploadExit(st)

Next ==
    \/ MainNext \/ WorkerNext \/ ChildNext \/ UploadNext
    \/ ListenerStart \/ SigintDefault \/ CtrlC

Spec == Init /\ [][Next]_vars

\* every child process eventually exits and every task is scheduled fairly
\* (the listener task too, so the handler is eventually installed);
\* ctrl-c is up to the user
Fairness ==
    /\ WF_vars(MainNext)
    /\ WF_vars(WorkerNext)
    /\ WF_vars(ChildNext)
    /\ WF_vars(UploadNext)
    /\ WF_vars(ListenerStart)

FairSpec == Spec /\ Fairness

\* the runs of CoalesceArgs
CoalesceSpec == CoalesceInit /\ [][Next]_vars

\* ------------------------------------------------------------------ claims

\* C1: single-flight. At most one upload child is running in any reachable
\* state, and the worker is about to start a publication run only when no
\* upload is running.
C1_SingleFlight ==
    /\ uploads <= 1
    /\ wpc = "spawn" => uploads = 0

\* a trigger is waiting in the queue while a publication run is in flight
C1_Witness == uploads = 1 /\ wpc = "waiting" /\ queue >= 1

\* C2: drain completeness. When main reports success with publication enabled
\* and no publication failure, the worker has returned Ok after a publication
\* run that started after the quantization loop ended, no upload is running
\* and no trigger is left in the queue.
C2_DrainComplete ==
    (mstep = "success" /\ ~args.skip_upload /\ werr = "none")
        => (wpc = "done_ok" /\ lateRun /\ uploads = 0 /\ queue = 0 /\ ~busy)

\* success after the shutdown loop had to wait for a busy coordinator
C2_Witness ==
    /\ mstep = "success" /\ ~args.skip_upload /\ werr = "none"
    /\ sig = "listening" /\ drainWaited /\ lateRun /\ wpc = "done_ok"

\* C3: the run always terminates. Under fair scheduling and exiting children
\* main eventually reports success or failure (or the process has been
\* terminated by a SIGINT that arrived before the handler was installed).
C3_Terminates == <>Exited

\* C4: a failed publication run makes the run report failure. Main never
\* reports success when the upload worker has returned an error.
C4_FailureReported == ~(mstep = "success" /\ werr # "none")

\* C5: cancellation is a latch. Once ctrl-c has fired, every step that is
\* waiting in its select!, also one that started waiting afterwards, has
\* observed the cancellation.
C5_Latch ==
    /\ (sig = "fired" /\ MainInSelect) => mnotified
    /\ (sig = "fired" /\ WorkerInSelect) => wnotified

\* C6: a child that exits with a non-success status makes its step fail.
\* Whenever main leaves a step whose child has exited with a non-zero status,
\* it leaves it into failure.
C6_ExitFailureAborts ==
    [][(mstep \in ChildSteps /\ mphase = "waiting" /\ mchild = "exited"
        /\ mstatus = "nonzero" /\ mstep' # mstep) => mstep' = "failure"]_vars

\* C7: write-then-rename. quantize() goes on from the quantizer to the rename
\* step only when the quantizer has exited with a success status (not when it
\* failed or was killed), and the rename child is spawned only in a rename
\* step entered that way; then the final path can only receive what a
\* successful quantizer has left at the ".pending" path.
C7_WriteThenRename ==
    [][/\ (mstep = "quantize" /\ mstep' = "mv")
             => (mchild = "exited" /\ mstatus = "ok")
       /\ (mstep' = "mv" /\ mstep # "mv") => mstep = "quantize"
       /\ (\E q \in QuantSample : final'[q] # final[q])
             => (mstep = "mv" /\ mchild = "running")
      ]_vars

\* C8: no publication in flight at process exit. When main has returned,
\* with success or failure, no upload child is running.
C8_NoUploadAtExit == Terminated => uploads = 0

\* C9 as claimed: a cancellation that arrives while a quantizer and an upload
\* are both running does not terminate the publication run.
C9_UploadSurvivesCancel == ~(cancelBoth /\ werr = "cancelled")

\* C9 amended: a cancellation that arrives while a quantization step and a
\* publication run are both waiting in their select! wakes both, and each of
\* them that resumes while its child is still running calls kill() on it:
\* the child is killed and, once it is reaped, the step returns an error (the
\* cancellation error, or the error of the wait), or the kill itself fails
\* and the step returns that error at once. The upload is not left to finish
\* unless it could not be killed.
C9_CancelReachesUpload ==
    [][/\ (sig = "listening" /\ sig' = "fired" /\ mstep = "quantize"
           /\ MainInSelect /\ WorkerInSelect) => (mnotified' /\ wnotified')
       /\ (wpc = "waiting" /\ wnotified /\ wchild = "running" /\ wpc' # wpc)
             => \/ wpc' = "killing" /\ wstatus' = "killed" /\ uploads' = uploads - 1
                \/ wpc' = "done_err" /\ werr' = "kill" /\ uploads' = uploads
       /\ (wpc = "killing" /\ wpc' # wpc)
             => (wpc' = "done_err" /\ werr' \in {"cancelled", "kill"})
       /\ (mstep = "quantize" /\ MainInSelect /\ mnotified /\ mchild = "running"
           /\ mphase' # mphase)
             => \/ mphase' = "killing" /\ mstatus' = "killed"
                \/ mstep' = "failure" /\ merr' = "kill"
       /\ (mstep = "quantize" /\ mphase = "killing" /\ mstep' # mstep)
             => (mstep' = "failure" /\ merr' \in {"cancelled", "kill"})
      ]_vars

\* one ctrl-c aborted the quantization step and killed the running upload
C9_Witness == cancelBoth /\ werr = "cancelled" /\ merr = "cancelled"

\* C10: every external step is cancellation-aware and reaps its child. A
\* ctrl-c that arrives while main waits for a running child is observed by
\* that step, a step that observed it returns the cancellation error, and no
\* step returns while its child is running.
C10_CancelAware ==
    [][/\ (sig = "listening" /\ sig' = "fired" /\ mstep \in ChildSteps
           /\ mphase = "waiting" /\ mchild = "running") => mnotified'
       /\ (mstep \in ChildSteps /\ mnotified /\ mstep' # mstep)
             => (mstep' = "failure" /\ merr' = "cancelled")
       /\ (mstep \in ChildSteps /\ mstep' # mstep) => mchild' # "running"
      ]_vars

\* C11: quantization jobs run in the requested order and never overlap. The
\* quantizer of job qi is spawned only when no child of main is running and
\* exactly the qi - 1 earlier jobs have completed their rename step, qi moves
\* on by one only after job qi has completed, and the trigger of job qi is
\* enqueued after its rename and before the loop reaches job qi + 1.
C11_OrderedJobs ==
    [][/\ (mstep = "quantize" /\ mphase = "start" /\ mchild' = "running")
             => (jobsDone = qi - 1 /\ mchild = "none")
       /\ qi' # qi => (qi' = qi + 1 /\ jobsDone = qi /\ mchild = "none")
       /\ (mstep = "trigger_send" /\ queue' = queue + 1)
             => (jobsDone = qi /\ mstep' = "loop" /\ qi' = qi + 1)
      ]_vars

\* the quantizer of job 2 is running after the rename and the trigger of job 1
C11_Witness ==
    /\ mstep = "quantize" /\ qi = 2 /\ mchild = "running"
    /\ jobsDone = 1 /\ runsStarted + queue >= 1

\* C12: the coordinator finishes only when the queue is closed and empty.
\* Whenever the worker task returns, upload_tx has been dropped and no
\* trigger is in the queue at that moment.
C12_FinishOnlyDrained ==
    [][(~WorkerFinished /\ WorkerFinished') => (closed /\ queue = 0)]_vars

\* C13: single-flight coalescing. When three or more triggers were pending
\* in the queue during the first publication run, at most one more
\* publication run is started afterwards.
C13_Coalesced == firstRunBacklog => runsStarted <= 2

\* C14: conversion verification. While the conversion stage applies and the
\* full-precision file does not exist, main is not past the verification and
\* no worker, publication run or quantization job has been started; main
\* fails with the verification error only when the file is absent.
C14_ConversionVerified ==
    /\ (~args.override_fp /\ ~args.only_upload /\ ~fpExists)
          => /\ mstep \in {"init", "clone", "pull", "clean", "make", "deps",
                           "download_check", "mkdir", "download", "convert",
                           "verify", "failure"}
             /\ wpc = "unspawned" /\ runsStarted = 0 /\ jobsDone = 0
    /\ merr = "verify" => (mstep = "failure" /\ ~fpExists)

\* the converter has exited, the file is absent and the run has failed
C14_Witness ==
    /\ mstep = "failure" /\ merr = "verify" /\ ~fpExists
    /\ wpc = "unspawned"

\* C15: a program that cannot be started fails its step without retry. A
\* step that is left before its child runs is left into failure, with the
\* spawn error (or the panic of its progress line), and without a child; a
\* step never returns to its spawn once a child was spawned, and nothing
\* happens after main has failed.
C15_SpawnFailureAborts ==
    [][/\ (mstep \in ChildSteps /\ mphase = "start" /\ mstep' # mstep)
             => /\ mstep' = "failure" /\ merr' \in {"spawn", "panic"}
                /\ mchild' = "none"
       /\ (mstep \in ChildSteps /\ mphase # "start")
             => ~(mstep' = mstep /\ mphase' = "start")
       /\ mstep # "failure"
      ]_vars

\* the quantizer of job 2 could not be started after job 1 had completed
C15_Witness ==
    /\ mstep = "failure" /\ merr = "spawn" /\ qi = 2 /\ jobsDone = 1

\* C16: the importance-matrix stage runs if and only if no importance-matrix
\* path was supplied, some requested quant level requires an importance
\* matrix and only-upload mode is off. Main enters the stage only from the
\* end of the download and conversion stages, and there it enters it exactly
\* under that condition.
C16_ImatrixIff ==
    [][/\ (mstep \in {"download_check", "download", "verify"}
           /\ mstep' \in {"calib", "spawn_worker", "loop"})
             => (mstep' = "calib"
                   <=> (/\ ~args.override_imat
                        /\ \E i \in 1..Len(args.quants) :
                              requires_imatrix(args.quants[i])
                        /\ ~args.only_upload))
       /\ (mstep' = "calib" /\ mstep # "calib")
             => mstep \in {"download_check", "download", "verify"}
       /\ (mstep' \in {"spawn_worker", "loop"}
           /\ mstep \notin {"spawn_worker", "loop", "trigger_check", "trigger_send"})
             => mstep \in {"download_check", "download", "verify", "cleanup"}
      ]_vars

\* the generator runs for a list that mixes levels with and without imatrix
C16_Witness ==
    /\ mstep = "imatrix" /\ mchild = "running"
    /\ \E i \in 1..Len(args.quants) : ~requires_imatrix(args.quants[i])

\* C17: only-upload mode. With only_upload set main is never at a download,
\* conversion, importance-matrix or quantization step, the only children of
\* main are those of the update stage (one of them may be left behind when
\* main fails because it could not kill it), and no quantization job completes.
C17_OnlyUpload ==
    args.only_upload
        => /\ mstep \notin {"mkdir", "download", "convert", "verify", "calib",
                            "imatrix", "cleanup", "quantize", "mv",
                            "trigger_check", "trigger_send"}
           /\ mchild # "none"
                => mstep \in {"clone", "pull", "clean", "make", "deps", "failure"}
           /\ jobsDone = 0

\* the publication run of an only-upload run is in flight
C17_Witness ==
    /\ args.only_upload /\ ~args.skip_upload
    /\ uploads = 1 /\ wpc = "waiting" /\ mstep = "join"

\* C18: the busy flag tracks the in-flight run. Whenever the worker is not
\* in a publication operation (not spawned, idle at recv, or returned with
\* Ok or Err) the busy flag is false.
C18_BusyTracksRun ==
    wpc \in {"unspawned", "recv", "done_ok", "done_err"} => ~busy

\* C19: the number of publication runs started, together with the triggers
\* still in the queue, never exceeds the number of completed quantization
\* jobs plus one.
C19_RunBound ==
    /\ runsStarted <= jobsDone + 1
    /\ runsStarted + queue <= jobsDone + 1

\* one run per completed job and the run of the final trigger
C19_Witness == jobsDone = 2 /\ runsStarted = 3 /\ mstep = "success"

TypeOK ==
    /\ args \in Args
    /\ mphase \in {"start", "spawned", "waiting", "killing"}
    /\ sig \in {"uninstalled", "listening", "fired", "killed"}
    /\ qi \in 1..(MaxQuants + 1)
    /\ mchild \in {"none", "running", "exited"}
    /\ wchild \in {"none", "running", "exited"}
    /\ queue \in 0..ChannelCapacity
    /\ uploads \in Nat
    /\ busy \in BOOLEAN
    /\ jobsDone \in 0..MaxQuants
    /\ runsStarted \in 0..(MaxQuants + 1)
    /\ firstRunBacklog \in BOOLEAN
====
